---- MODULE Spec2Model ----
(***************************************************************************)
(* A model of the ediel UNI-file parsers: UNIBaseParser (uniformat.py),    *)
(* the two-wire parsers (twowire.py), the MIG parsers and their filename   *)
(* dispatch (mig.py, filename.py).                                         *)
(*                                                                         *)
(* Text is modelled as a sequence of chunks: a chunk is either one of the  *)
(* bracket characters "[" and "]" or a run of text that holds no bracket.  *)
(* The string "[Body Start]" is <<"[", "Body Start", "]">>, the empty      *)
(* string is <<>>.  A line is the list of fields csv.reader returns, a     *)
(* file the list of its lines.  Python indices are 0-based and are kept    *)
(* as such in every value the program stores (body_start_line, ...);       *)
(* TLA+ sequences are 1-based, so line i of Python is raw[i + 1] here.     *)
(***************************************************************************)
EXTENDS Integers, Sequences, FiniteSets, TLC

VARIABLES
    file,             \* constructor argument: the lines of the input file
    body,             \* what the data lines of the file hold, as pandas reads it
    remove,           \* constructor argument remove_contract_info_lines
    cls,              \* the parser class that is constructed
    status,           \* "new" | "ready" | "failed"
    err,              \* exception raised by the last operation, or "none"
    raw,              \* self.raw
    dict,             \* self.dict
    body_start_line,  \* self.body_start_line
    body_end_line,    \* self.body_end_line
    is_long_format,   \* TwoWireMMRParser.is_long_format
    df,               \* self.df
    position,         \* the offset a buffer-backed input file is left at
    cache,            \* lru_cache of Mig3Export91Parser.get_timeseries_frame
    decodes,          \* how many times _parse_dataframe ran on the instance
    calls,            \* how many frame operations were called on the instance
    used_layout,      \* the column layout of the last read that returned a frame
    lastOp,           \* the last frame operation called
    result,           \* what the last frame operation returned
    filepath,         \* argument of get_mig_parser_cls
    resolved,         \* outcome of get_mig_parser_cls
    row,              \* argument of _parse_row_to_timeseries: a decoded row
    index_shift,      \* argument index_shift of _parse_row_to_timeseries
    ts                \* outcome of _parse_row_to_timeseries

instVars == <<file, body, remove, cls, status, err, raw, dict, body_start_line,
              body_end_line, is_long_format, df, used_layout, position, cache, decodes,
              calls,
              lastOp, result>>

resVars == <<filepath, resolved>>

rowVars == <<row, index_shift, ts>>

vars == <<instVars, resVars, rowVars>>

-----------------------------------------------------------------------------
(* Bounds of the model.                                                    *)

\* Longest input file, in lines, of the construction specification.
MaxLines == 4

\* The most data lines a two-wire file of the model has.
MaxRows == 2

\* The most frame operations called on an instance.
MaxCalls == 2

\* The most body lines a MIG file of the model has.
MaxMigRows == 2

-----------------------------------------------------------------------------
(* Python helpers.                                                         *)

None == "None"

Min(a, b) == IF a < b THEN a ELSE b
Max(a, b) == IF a > b THEN a ELSE b

\* A slice bound: None is <<>>, the integer i is <<i>>.
NoBound == <<>>
Bound(i) == <<i>>

\* seq[start:stop] of Python for 0-based bounds that may be None or
\* negative; the result is again a sequence.
PyIndex(b, n, dflt) ==
    IF b = NoBound THEN dflt
    ELSE IF b[1] < 0 THEN Max(n + b[1], 0)
    ELSE Min(b[1], n)

PySlice(seq, start, stop) ==
    LET n  == Len(seq)
        lo == PyIndex(start, n, 0)
        hi == PyIndex(stop, n, n)
    IN  SubSeq(seq, lo + 1, hi)

-----------------------------------------------------------------------------
(* Fields and lines of a UNI file.                                         *)

BracketChars == {"[", "]"}

\* key.startswith("[")
StartsWithBracket(field) == Len(field) > 0 /\ field[1] = "["

\* key.strip("[]"): every leading and trailing bracket character is dropped.
RECURSIVE LStrip(_)
LStrip(field) ==
    IF Len(field) > 0 /\ field[1] \in BracketChars
    THEN LStrip(Tail(field)) ELSE field

RECURSIVE RStrip(_)
RStrip(field) ==
    IF Len(field) > 0 /\ field[Len(field)] \in BracketChars
    THEN RStrip(SubSeq(field, 1, Len(field) - 1)) ELSE field

Strip(field) == RStrip(LStrip(field))

BodyStartKey == <<"Body Start">>
BodyEndKey   == <<"Body End">>
FormatKey    == <<"Format">>
SubjectKey   == <<"Subject">>

ContractInfo == <<"CONTRACT-INFO">>
EmptyField   == <<>>

\* The lines a file of the model is made of.
BlankLine      == <<>>
BodyStartLine  == << <<"[", "Body Start", "]">> >>
BodyStartLine2 == << <<"[", "[", "Body Start", "]">>, <<"x">> >>
BodyEndLine    == << <<"[", "Body End", "]">> >>
FormatMMRLine  == << <<"[", "Format", "]">>, <<"MMR">> >>
FormatAMRLine  == << <<"[", "Format", "]">>, <<"AMR">>, EmptyField,
                     <<"Interval", ": ", "15", " ", "min">> >>
SubjectLine    == << <<"[", "Subject", "]">>, EmptyField >>
FormatBlankLine == << <<"[", "Format", "]">>, EmptyField >>
DataLine       == << <<"a">>, <<"full">> >>
DataLineGap    == << <<"b">>, <<"gap">> >>
DataLineTwin   == << <<"a">>, <<"gap">> >>
ContractLine   == << <<"a">>, ContractInfo >>

LineKinds == {BlankLine, BodyStartLine, BodyStartLine2, BodyEndLine,
              FormatMMRLine, FormatAMRLine, SubjectLine, FormatBlankLine,
              DataLine, ContractLine}

Files == UNION {[1..n -> LineKinds] : n \in 0..MaxLines}

\* No frame operation was called, and nothing was returned.
NoOp     == [name |-> "none", allow_duplicate_names |-> TRUE]
NoResult == [kind |-> "none", rows |-> <<>>, devices |-> <<>>, cells |-> <<>>]

\* The body of a file of the construction specification is not read.
NoBody == [layout |-> "short", width |-> 0, probe1 |-> "ok", probe2 |-> "ok",
           span |-> 0]

-----------------------------------------------------------------------------
(* UNIBaseParser._parse_properties.                                        *)

\* A value of self.dict: an int (a body offset), a str or a list of str.
IntVal(i)   == [t |-> "int", v |-> <<i>>]
StrVal(s)   == [t |-> "str", v |-> <<s>>]
ListVal(l)  == [t |-> "list", v |-> l]

EmptyDict == [k \in {} |-> IntVal(0)]

\* Mutant of DictUpdate: a key that is in the dict keeps its value.
DictUpdate_KeepFirst(d, key, value) ==
    [k \in DOMAIN d \cup {key} |-> IF k \in DOMAIN d THEN d[k] ELSE value]

\* d.update({key: value})
DictUpdate(d, key, value) ==
    [k \in DOMAIN d \cup {key} |-> IF k = key THEN value ELSE d[k]]

\* Mutant of BodyStartValue: the offset is forgotten.
BodyStartValue_NoOffset(i) == i

\* d.update({key: i + 1}) for the Body Start line at index i
BodyStartValue(i) == i + 1

\* d.update({key: i - 1}) for the Body End line at index i
BodyEndValue(i) == i - 1

\* Mutant of NonEmptyValues: empty strings are kept.
NonEmptyValues_KeepEmpty(line) == Tail(line)

\* [elem for elem in line[1:] if elem != ""]
NonEmptyValues(line) == SelectSeq(Tail(line), LAMBDA elem : elem # EmptyField)

\* One pass of the loop body, for the line at Python index i.
ParseLine(d, i, line) ==
    IF Len(line) = 0 THEN d
    ELSE IF ~StartsWithBracket(line[1]) THEN d
    ELSE LET key == Strip(line[1]) IN
         IF key = BodyStartKey THEN DictUpdate(d, key, IntVal(BodyStartValue(i)))
         ELSE IF key = BodyEndKey THEN DictUpdate(d, key, IntVal(BodyEndValue(i)))
         ELSE LET value == NonEmptyValues(line) IN
              IF Len(value) = 1 THEN DictUpdate(d, key, StrVal(value[1]))
              ELSE IF Len(value) = 0 THEN d
              ELSE DictUpdate(d, key, ListVal(value))

RECURSIVE ParseFrom(_, _, _)
ParseFrom(lines, k, d) ==
    IF k > Len(lines) THEN d
    ELSE ParseFrom(lines, k + 1, ParseLine(d, k - 1, lines[k]))

ParseProperties(lines) == ParseFrom(lines, 1, EmptyDict)

-----------------------------------------------------------------------------
(* UNIBaseParser.__init__.                                                 *)

\* "CONTRACT-INFO" in line
IsContractInfo(line) == \E j \in 1..Len(line) : line[j] = ContractInfo

\* self.raw = new_raw if remove_contract_info_lines else raw
RetainedLines(lines, rm) ==
    IF rm THEN SelectSeq(lines, LAMBDA line : ~IsContractInfo(line)) ELSE lines

\* Mutant of ConstructError: the body markers are looked up before the
\* emptiness test.
ConstructError_MarkersFirst(lines) ==
    LET d == ParseProperties(lines) IN
    IF ~(BodyStartKey \in DOMAIN d /\ BodyEndKey \in DOMAIN d) THEN "ParserError"
    ELSE IF Len(lines) = 0 THEN "EmptyFileException"
    ELSE "none"

\* The exception __init__ raises on these retained lines, or "none".
ConstructError(lines) ==
    IF Len(lines) = 0 THEN "EmptyFileException"
    ELSE LET d == ParseProperties(lines) IN
         IF BodyStartKey \in DOMAIN d /\ BodyEndKey \in DOMAIN d
         THEN "none" ELSE "ParserError"

\* Mutant of Exit: the buffer stays where the read left it.
Exit_NoSeek(offset) == offset

\* open_filename.__exit__ on a buffer that a read left at `offset`:
\* self.fh.seek(0), whether or not the read raised.
Exit(offset) == 0

\* The attributes of an instance that does not exist (yet): `status` tells
\* whether there is an instance, and these hold no value until there is.
NoInstance ==
    /\ raw = <<>>
    /\ dict = EmptyDict
    /\ body_start_line = 0
    /\ body_end_line = 0
    /\ is_long_format = FALSE
    /\ df = None

Construct ==
    /\ status = "new"
    /\ LET lines == RetainedLines(file, remove)
           e     == ConstructError(lines)
           d     == ParseProperties(lines)
       IN  /\ err' = e
           /\ IF e = "none"
              THEN /\ status' = "ready"
                   /\ raw' = lines
                   /\ dict' = d
                   /\ body_start_line' = d[BodyStartKey].v[1]
                   /\ body_end_line' = d[BodyEndKey].v[1]
                   /\ df' = None
                   /\ is_long_format' = FALSE
              ELSE /\ status' = "failed"
                   /\ UNCHANGED <<raw, dict, body_start_line, body_end_line,
                                  df, is_long_format>>
    /\ position' = Exit(Len(file))
    /\ UNCHANGED <<file, body, remove, cls, used_layout, cache, decodes, calls,
                   lastOp, result>>
    /\ UNCHANGED <<resVars, rowVars>>

\* UNIBaseParser.properties
properties == DOMAIN dict

-----------------------------------------------------------------------------
(* filename.match_filename and mig.get_mig_parser_cls.                     *)
(*                                                                         *)
(* A file path is modelled by the parts NPS_PATTERN tells apart:           *)
(*   dir       whether a directory prefix ending in "/" precedes the name  *)
(*   sender    the number of digits before the first "."                   *)
(*   receiver  the number of digits of the second part                     *)
(*   word      the letters the fourth part starts with                     *)
(*   digits    the digits that follow those letters                        *)
(*   suffix    whether more text follows the digits before the next "."    *)
(*   mig       the letters the fifth part starts with                      *)
(*   ext       the extension                                               *)

Digit == 0..9

EanDigits == 13

FilePaths ==
    [dir : BOOLEAN, sender : {12, 13}, receiver : {13},
     word : {"EXPORT", "export", "IMPORT"},
     digits : UNION {[1..n -> Digit] : n \in 1..2},
     suffix : BOOLEAN, mig : {"MIG", "XML"}, ext : {"csv", "txt"}]

\* re.I: letters are compared without regard to case.
UpperCase(w) == IF w = "export" THEN "EXPORT" ELSE w

\* No match of NPS_PATTERN.
NoMatch == [matched |-> FALSE, export_no |-> <<>>]

\* re.match(NPS_PATTERN, filename, re.I): the groupdict (of which only
\* export_no is used), or None.
match_filename(f) ==
    IF /\ f.sender = EanDigits
       /\ f.receiver = EanDigits
       /\ UpperCase(f.word) = "EXPORT"
       /\ Len(f.digits) >= 2
       /\ UpperCase(f.mig) = "MIG"
       /\ f.ext = "csv"
    THEN [matched |-> TRUE, export_no |-> SubSeq(f.digits, 1, 2)]
    ELSE NoMatch

\* The dict `parsers` of get_mig_parser_cls.
parsers ==
    (<<9, 1>> :> "Mig3Export91Parser") @@ (<<9, 2>> :> "Mig3Export92Parser") @@
    (<<9, 3>> :> "Mig3Export93Parser") @@ (<<9, 4>> :> "Mig3Export94Parser") @@
    (<<9, 5>> :> "Mig3Export95Parser") @@ (<<9, 6>> :> "Mig3Export96Parser")

\* get_mig_parser_cls: the class it returns or the exception it raises.
\* parsers[r["export_no"]] raises KeyError for a key the dict lacks.
get_mig_parser_cls(f) ==
    LET r == match_filename(f) IN
    IF ~r.matched THEN [done |-> TRUE, cls |-> None, raised |-> "ValueError"]
    ELSE IF r.export_no \in DOMAIN parsers
         THEN [done |-> TRUE, cls |-> parsers[r.export_no], raised |-> "none"]
         ELSE [done |-> TRUE, cls |-> None, raised |-> "KeyError"]

\* Before get_mig_parser_cls was called.
Unresolved == [done |-> FALSE, cls |-> None, raised |-> "none"]

Resolve ==
    /\ resolved = Unresolved
    /\ resolved' = get_mig_parser_cls(filepath)
    /\ UNCHANGED <<filepath, instVars, rowVars>>

-----------------------------------------------------------------------------
(* Mig3Export91Parser._parse_row_to_timeseries.                            *)
(*                                                                         *)
(* Timestamps are minutes on the fixed-offset clock of the file.  A cell   *)
(* of a decoded row is a number, NaN (an empty cell), a string or a        *)
(* timestamp.                                                              *)

Num(n)  == [k |-> "num", n |-> n, s |-> ""]
NaN     == [k |-> "nan", n |-> 0, s |-> ""]
Str(x)  == [k |-> "str", n |-> 0, s |-> x]
Time(t) == [k |-> "time", n |-> t, s |-> ""]

\* The invalid-reading quality code.
InvalidCode == Str("?")

\* Columns of a MIG 91 body row: 0..8 are named, the value block starts at
\* 9, the quality block 100 columns further right, 209..216 are named.
ValueBlockStart == 9
QualityOffset   == 100
IntervalColumn  == 209
RowWidth        == 217

IndexShifts == {"right", "left", "both", "neither"}

MinutesPerDay == 24 * 60

\* The rows of the model: the declared interval (<<L>>, or <<>> for NaN),
\* the row's Start and End, and two seeds that spread NaN values and the
\* quality codes "?", "A" and NaN over the row's cells.
Rows ==
    [Start : {0, 45}, Span : {0, 60, MinutesPerDay},
     Interval : {<<5>>, <<10>>, <<15>>, <<30>>, <<60>>, <<>>},
     vseed : 0..2, qseed : 0..2]

RowEnd(r) == r.Start + r.Span

\* The cell of row r in column col (0-based).
CellAt(r, col) ==
    IF col = 0 THEN Time(r.Start)
    ELSE IF col = 1 THEN Time(RowEnd(r))
    ELSE IF col < ValueBlockStart THEN Str("meta")
    ELSE IF col < ValueBlockStart + QualityOffset
    THEN (IF (col + r.vseed) % 3 = 0 THEN NaN ELSE Num(col))
    ELSE IF col < IntervalColumn
    THEN (CASE (col + r.qseed) % 3 = 0 -> InvalidCode
            [] (col + r.qseed) % 3 = 1 -> Str("A")
            [] OTHER -> NaN)
    ELSE IF col = IntervalColumn
    THEN (IF r.Interval = <<>> THEN NaN ELSE Num(r.Interval[1]))
    ELSE Str("meta")

RowCells(r) == [c \in 1..RowWidth |-> CellAt(r, c - 1)]

\* seq[start:stop:step] of Python by position, start and stop integers,
\* step a non-zero integer.
PyStepSlice(seq, start, stop, step) ==
    LET n  == Len(seq)
        lo == IF step > 0
              THEN (IF start < 0 THEN Max(start + n, 0) ELSE Min(start, n))
              ELSE (IF start < 0 THEN Max(start + n, -1) ELSE Min(start, n - 1))
        hi == IF step > 0
              THEN (IF stop < 0 THEN Max(stop + n, 0) ELSE Min(stop, n))
              ELSE (IF stop < 0 THEN Max(stop + n, -1) ELSE Min(stop, n - 1))
        count == IF step > 0
                 THEN (IF hi > lo THEN (hi - lo - 1) \div step + 1 ELSE 0)
                 ELSE (IF lo > hi THEN (lo - hi - 1) \div (-step) + 1 ELSE 0)
    IN  [k \in 1..count |-> seq[lo + (k - 1) * step + 1]]

\* Mutant of DateRange: `inclusive` is ignored, both ends are kept.
DateRange_BothEnds(start, end, freq, inclusive) ==
    LET n == IF end < start THEN 0 ELSE (end - start) \div freq + 1
    IN  [k \in 1..n |-> start + (k - 1) * freq]

\* pd.date_range(start=start, end=end, freq=f"{freq}min", inclusive=...)
DateRange(start, end, freq, inclusive) ==
    LET n    == IF end < start THEN 0 ELSE (end - start) \div freq + 1
        all  == [k \in 1..n |-> start + (k - 1) * freq]
        left  == inclusive \in {"both", "left"}
        right == inclusive \in {"both", "right"}
    IN  IF start = end
        THEN (IF ~left /\ ~right THEN <<>> ELSE all)
        ELSE LET a == IF ~left /\ n > 0 /\ all[1] = start THEN Tail(all) ELSE all
             IN  IF ~right /\ Len(a) > 0 /\ a[Len(a)] = end
                 THEN SubSeq(a, 1, Len(a) - 1) ELSE a

\* step = int(5 - (60 / interval)): int() truncates towards zero.
Step(interval) ==
    LET num == 5 * interval - 60
    IN  IF num >= 0 THEN num \div interval ELSE -((-num) \div interval)

\* start_slice = 9 + step - 1
StartSlice(interval) == ValueBlockStart + Step(interval) - 1

\* lambda x: float("NaN") if x == "?" else 1
QualityMultiplier(x) == IF x = InvalidCode THEN NaN ELSE Num(1)

\* Mutant of Multiply: the multiplier is ignored.
Multiply_Unmasked(v, m) == v

\* One element of values * quality_multiplier; m is NaN or 1.
Multiply(v, m) ==
    IF v.k \in {"num", "nan"}
    THEN (IF m.k = "nan" THEN NaN ELSE v)
    ELSE IF v.k = "str" /\ m.k = "num" THEN v
    ELSE Str("TypeError")

\* Whether values * quality_multiplier raises TypeError.
MultiplyRaises(v, m) ==
    \/ v.k = "time"
    \/ v.k = "str" /\ m.k = "nan"

\* What _parse_row_to_timeseries has not yet returned.
Unparsed == [done |-> FALSE, raised |-> "none", empty |-> TRUE,
             index |-> <<>>, values |-> <<>>, quality |-> <<>>]

\* pd.DataFrame()
EmptyFrame == [done |-> TRUE, raised |-> "none", empty |-> TRUE,
               index |-> <<>>, values |-> <<>>, quality |-> <<>>]

Raised(e) == [done |-> TRUE, raised |-> e, empty |-> TRUE,
              index |-> <<>>, values |-> <<>>, quality |-> <<>>]

\* _parse_row_to_timeseries(row, index_shift)
ParseRowToTimeseries(r, shift) ==
    IF r.Interval = <<>> THEN EmptyFrame
    ELSE LET interval == r.Interval[1]
             cells    == RowCells(r)
             index    == DateRange(r.Start, RowEnd(r), interval, shift)
             step     == Step(interval)
             from     == StartSlice(interval)
             n        == Len(index)
         IN  IF step = 0 THEN Raised("ValueError")
             ELSE LET vdata == PyStepSlice(cells, from, from + n * step, step)
                      qdata == PyStepSlice(cells, from + QualityOffset,
                                           from + QualityOffset + n * step, step)
                  IN  IF Len(vdata) # n \/ Len(qdata) # n
                      THEN Raised("ValueError")
                      ELSE IF \E i \in 1..n :
                                 MultiplyRaises(vdata[i], QualityMultiplier(qdata[i]))
                      THEN Raised("TypeError")
                      ELSE [done |-> TRUE, raised |-> "none", empty |-> n = 0,
                            index |-> index,
                            values |-> [i \in 1..n |->
                                Multiply(vdata[i], QualityMultiplier(qdata[i]))],
                            quality |-> qdata]

ParseRow ==
    /\ ~ts.done
    /\ ts' = ParseRowToTimeseries(row, index_shift)
    /\ UNCHANGED <<row, index_shift, instVars, resVars>>

-----------------------------------------------------------------------------
(* Two-wire bodies and TwoWireParser._pandas_read.                         *)
(*                                                                         *)
(* A data line of the model names its device (first field) and says        *)
(* whether its last reading is missing ("gap") or not ("full").  `body`    *)
(* holds what is common to the data lines of a file: the physical layout   *)
(* of their columns, the number of columns, the time from Start to End,    *)
(* and what pandas.read_csv does on the first and on the second read of    *)
(* the body ("ok", or the exception it raises).                            *)

Date(t) == [k |-> "date", n |-> t, s |-> ""]
NaT     == [k |-> "nat", n |-> 0, s |-> ""]

\* isna
IsNull(c) == c.k \in {"nan", "nat"}

\* UNIBaseParser._date_parser: a text that is no date gives NaT.
DateParser(c) == IF c.k = "date" THEN Time(c.n) ELSE NaT

\* A column that is not in parse_dates keeps a date as text.
Plain(c) == IF c.k = "date" THEN Str("date") ELSE c

Layouts == {"short", "long", "amr"}

Bodies ==
    [layout : Layouts, width : {11, 12},
     probe1 : {"ok", "ValueError", "TypeError"},
     probe2 : {"ok", "ValueError"},
     span : {0, 60}]

\* The readings of a data line that has n reading columns.
Readings(n, kind) ==
    [j \in 1..n |-> IF kind = "gap" /\ j = n THEN NaN ELSE Num(j)]

\* The cells of a data line, column by column, in the physical layout.
PhysRow(b, line) ==
    LET name  == Str(line[1][1])
        kind  == line[2][1]
        start == Date(0)
        end   == Date(b.span)
    IN  CASE b.layout = "short" ->
               <<name, Str("T"), Str("t"), Str("c"), Str("u"),
                 start, Num(0), end>> \o Readings(b.width - 8, kind)
          [] b.layout = "long" ->
               <<Str("ean"), name, Str("T"), Str("t"), Str("c"), Str("u"),
                 start, Num(0), end>> \o Readings(b.width - 11, kind)
                 \o <<Str("p"), Str("q")>>
          [] OTHER ->
               <<start, end, Str("ean"), name, Str("T"), Str("u")>>
                 \o Readings(b.width - 6, kind)

\* column_names of the three reads.
ColumnNames(layout) ==
    CASE layout = "short" ->
           (0 :> "Name") @@ (1 :> "Type") @@ (2 :> "Tariff") @@
           (3 :> "Cumulative") @@ (4 :> "Unit") @@ (5 :> "Start") @@ (7 :> "End")
      [] layout = "long" ->
           (0 :> "Ean") @@ (1 :> "Name") @@ (2 :> "Type") @@ (3 :> "Tariff") @@
           (4 :> "Cumulative") @@ (5 :> "Unit") @@ (6 :> "Start") @@ (8 :> "End")
      [] OTHER ->
           (0 :> "Start") @@ (1 :> "End") @@ (2 :> "Ean") @@ (3 :> "Name") @@
           (4 :> "Type") @@ (5 :> "Unit")

\* parse_dates of the three reads.
ParseDates(layout) ==
    CASE layout = "short" -> {5, 7}
      [] layout = "long" -> {6, 8}
      [] OTHER -> {0, 1}

\* sort_mixed_list on the columns: the named ones first, the others last.
SortMixedList(columns) ==
    SelectSeq(columns, LAMBDA x : x.label.k = "str")
        \o SelectSeq(columns, LAMBDA x : x.label.k # "str")

\* The lines read_csv keeps: skiprows = body_start_line lines are skipped
\* at the top, skipfooter = len(self.raw) - body_end_line - 1 at the bottom.
BodyLines ==
    LET skiprows   == body_start_line
        skipfooter == Len(raw) - body_end_line - 1
    IN  SubSeq(file, skiprows + 1, Len(file) - skipfooter)

\* The frame _pandas_read returns for a read with the given layout.
PandasRead(layout) ==
    LET lines   == BodyLines
        names   == ColumnNames(layout)
        dates   == ParseDates(layout)
        renamed == [c \in 1..body.width |->
                       [label |-> IF (c - 1) \in DOMAIN names
                                  THEN Str(names[c - 1]) ELSE Num(c - 1),
                        col |-> c]]
        sorted  == SortMixedList(
                       SelectSeq(renamed, LAMBDA x : x.label # Str("Name")))
        nameCol == (CHOOSE c \in DOMAIN names : names[c] = "Name") + 1
        decoded == [r \in 1..Len(lines) |->
                       [c \in 1..body.width |->
                           IF (c - 1) \in dates
                           THEN DateParser(PhysRow(body, lines[r])[c])
                           ELSE Plain(PhysRow(body, lines[r])[c])]]
    IN  [cols  |-> [k \in 1..Len(sorted) |-> sorted[k].label],
         names |-> [r \in 1..Len(lines) |-> decoded[r][nameCol]],
         cells |-> [r \in 1..Len(lines) |->
                       [k \in 1..Len(sorted) |-> decoded[r][sorted[k].col]]]]

\* What read_csv does on the n-th read of the body: a body without any
\* line raises EmptyDataError, a subclass of ValueError.
ReadOutcome(n) ==
    IF Len(BodyLines) = 0 THEN "EmptyDataError"
    ELSE IF n = 1 THEN body.probe1 ELSE body.probe2

\* The exceptions `except ValueError` catches.
ValueErrors == {"ValueError", "EmptyDataError"}

-----------------------------------------------------------------------------
(* _parse_dataframe of TwoWireMMRParser and TwoWireAMRParser.              *)

Classes == {"TwoWireMMRParser", "TwoWireAMRParser"}

\* Mutant of ParseDataframe: the long layout is not remembered.
ParseDataframe_Forgetful ==
    IF cls = "TwoWireMMRParser"
    THEN IF ReadOutcome(1) = "ok"
         THEN [raised |-> "none", layout |-> "short", long |-> is_long_format]
         ELSE IF ReadOutcome(1) \in ValueErrors
         THEN IF ReadOutcome(2) = "ok"
              THEN [raised |-> "none", layout |-> "long", long |-> is_long_format]
              ELSE [raised |-> ReadOutcome(2), layout |-> "none",
                    long |-> is_long_format]
         ELSE [raised |-> ReadOutcome(1), layout |-> "none",
               long |-> is_long_format]
    ELSE IF ReadOutcome(1) = "ok"
         THEN [raised |-> "none", layout |-> "amr", long |-> is_long_format]
         ELSE [raised |-> ReadOutcome(1), layout |-> "none",
               long |-> is_long_format]

\* The exception _parse_dataframe raises, the layout of the read it
\* returns, and self.is_long_format when it ends.
ParseDataframe ==
    IF cls = "TwoWireMMRParser"
    THEN IF ReadOutcome(1) = "ok"
         THEN [raised |-> "none", layout |-> "short", long |-> is_long_format]
         ELSE IF ReadOutcome(1) \in ValueErrors
         THEN IF ReadOutcome(2) = "ok"
              THEN [raised |-> "none", layout |-> "long", long |-> TRUE]
              ELSE [raised |-> ReadOutcome(2), layout |-> "none",
                    long |-> is_long_format]
         ELSE [raised |-> ReadOutcome(1), layout |-> "none",
               long |-> is_long_format]
    ELSE IF ReadOutcome(1) = "ok"
         THEN [raised |-> "none", layout |-> "amr", long |-> is_long_format]
         ELSE [raised |-> ReadOutcome(1), layout |-> "none",
               long |-> is_long_format]

\* get_dataframe: self.df is None on every path, so _parse_dataframe runs.
DataframeCached == df # None

\* Mutant of ValRange: the range of the short layout, whatever the flag.
ValRange_ShortOnly(c, long) ==
    IF c = "TwoWireMMRParser" THEN <<Bound(6), NoBound>>
    ELSE <<Bound(5), Bound(102)>>

\* val_range, as (from, to)
ValRange(c, long) ==
    IF c = "TwoWireMMRParser"
    THEN (IF ~long THEN <<Bound(6), NoBound>> ELSE <<Bound(7), Bound(-2)>>)
    ELSE <<Bound(5), Bound(102)>>

\* meta_range, as (from, to)
MetaRange(c, long) ==
    IF c = "TwoWireMMRParser"
    THEN (IF ~long THEN <<NoBound, Bound(6)>> ELSE <<NoBound, Bound(7)>>)
    ELSE <<NoBound, Bound(5)>>

\* drop_duplicates(subset='Name'): the rows that are the first of their name.
FirstOfName(names) ==
    SelectSeq([r \in 1..Len(names) |-> r],
              LAMBDA r : \A q \in 1..(r - 1) : names[q] # names[r])

AllRows(names) == [r \in 1..Len(names) |-> r]

KeptRows(names, allow_duplicate_names) ==
    IF allow_duplicate_names THEN AllRows(names) ELSE FirstOfName(names)

\* The positions of the columns df.columns[from:to] selects.
ColumnSlice(frame, range) ==
    PySlice([k \in 1..Len(frame.cols) |-> k], range[1], range[2])

-----------------------------------------------------------------------------
(* TwoWireParser.interval and misc.date_range.                             *)

\* text.split(': ')[1]: the chunks between the first and the second ": ",
\* or <<"IndexError">> when there is no ": " in the text.
RECURSIVE UpToSeparator(_)
UpToSeparator(text) ==
    IF Len(text) = 0 \/ text[1] = ": " THEN <<>>
    ELSE <<text[1]>> \o UpToSeparator(Tail(text))

RECURSIVE AfterSeparator(_)
AfterSeparator(text) ==
    IF Len(text) = 0 THEN <<"IndexError">>
    ELSE IF text[1] = ": " THEN UpToSeparator(Tail(text))
    ELSE AfterSeparator(Tail(text))

\* text.replace(' ', '')
WithoutSpaces(text) == SelectSeq(text, LAMBDA c : c # " ")

\* The minutes of a frequency text such as "15min"; 0 when pandas does
\* not know the text as a frequency.
Minutes == ("5" :> 5) @@ ("15" :> 15) @@ ("60" :> 60)

FreqMinutes(text) ==
    IF Len(text) = 2 /\ text[2] = "min" /\ text[1] \in DOMAIN Minutes
    THEN Minutes[text[1]] ELSE 0

\* self.interval: the exception it raises, whether it is None, and the
\* frequency text otherwise.
Interval ==
    IF FormatKey \notin DOMAIN dict
    THEN [raised |-> "TypeError", none |-> TRUE, text |-> <<>>]
    ELSE IF dict[FormatKey].t = "str"
    THEN [raised |-> "none", none |-> TRUE, text |-> <<>>]
    ELSE LET part == AfterSeparator(dict[FormatKey].v[2]) IN
         IF part = <<"IndexError">>
         THEN [raised |-> "IndexError", none |-> TRUE, text |-> <<>>]
         ELSE [raised |-> "none", none |-> FALSE, text |-> WithoutSpaces(part)]

\* What date_range and the assignment of the index do.
NoIndex(e) == [raised |-> e, stamps |-> <<>>]
Index(stamps) == [raised |-> "none", stamps |-> stamps]

\* misc.date_range(start, end, periods=periods): the times of the model
\* are minutes, and the spans of the model are multiples of periods - 1.
DateRangePeriods(start, end, periods) ==
    IF periods # 0
    THEN IF periods = 1 THEN NoIndex("ZeroDivisionError")
         ELSE LET period == (end - start) \div (periods - 1) IN
              IF period = 0 THEN NoIndex("ValueError")
              ELSE Index(DateRange(start, end, period, "both"))
    ELSE Index(<<>>)

\* misc.date_range(start, end, freq=freq)
DateRangeFreq(start, end, text) ==
    IF FreqMinutes(text) = 0 THEN NoIndex("ValueError")
    ELSE Index(DateRange(start, end, FreqMinutes(text), "both"))

-----------------------------------------------------------------------------
(* The frame operations.                                                   *)

\* The position of the named column in the frame.
ColumnOf(frame, name) ==
    CHOOSE k \in 1..Len(frame.cols) : frame.cols[k] = Str(name)

Returned(kind, rows, devices, cells) ==
    [kind |-> kind, rows |-> rows, devices |-> devices, cells |-> cells]

Outcome(e, r) == [raised |-> e, returned |-> r]

\* get_dataframe on a read that returned `frame`.
Dataframe(frame) ==
    Outcome("none", Returned("dataframe", frame.cols, frame.names, frame.cells))

\* get_metadata_frame on a read that returned `frame`: meta.T has one row
\* for each metadata column and one column for each device.
MetadataFrame(frame, allow_duplicate_names, long) ==
    LET cols == ColumnSlice(frame, MetaRange(cls, long))
        kept == KeptRows(frame.names, allow_duplicate_names)
    IN  Outcome("none",
            Returned("metadata",
                [i \in 1..Len(cols) |-> frame.cols[cols[i]]],
                [j \in 1..Len(kept) |-> frame.names[kept[j]]],
                [i \in 1..Len(cols) |->
                    [j \in 1..Len(kept) |-> frame.cells[kept[j]][cols[i]]]]))

\* TwoWireParser.get_timeseries_frame on a read that returned `frame`.
TimeseriesFrame(frame, allow_duplicate_names, long) ==
    LET cols  == ColumnSlice(frame, ValRange(cls, long))
        kept  == KeptRows(frame.names, allow_duplicate_names)
        \* vals.T
        table == [i \in 1..Len(cols) |->
                     [j \in 1..Len(kept) |-> frame.cells[kept[j]][cols[i]]]]
        \* vals.dropna(inplace=True)
        vals  == SelectSeq(table,
                     LAMBDA r : \A j \in 1..Len(r) : ~IsNull(r[j]))
        start == frame.cells[1][ColumnOf(frame, "Start")]
        end   == frame.cells[1][ColumnOf(frame, "End")]
        index == IF Interval.raised # "none" THEN NoIndex(Interval.raised)
                 ELSE IF start.k # "time" \/ end.k # "time"
                 THEN NoIndex("ValueError")
                 ELSE IF ~Interval.none
                 THEN DateRangeFreq(start.n, end.n, Interval.text)
                 ELSE DateRangePeriods(start.n, end.n, Len(vals))
    IN  IF index.raised # "none" THEN Outcome(index.raised, NoResult)
        ELSE IF Len(index.stamps) # Len(vals)
        THEN Outcome("ValueError", NoResult)
        ELSE Outcome("none",
                 Returned("timeseries",
                     [i \in 1..Len(vals) |-> Time(index.stamps[i])],
                     [j \in 1..Len(kept) |-> frame.names[kept[j]]],
                     vals))

\* Mutant of DropLastValid: nothing is dropped.
DropLastValid_Nothing(out) == out

\* df.drop(df.last_valid_index(), inplace=True) on what the base
\* get_timeseries_frame returned: the rows with the label of the last row
\* go, and a frame without rows has no such label.
DropLastValid(out) ==
    LET r == out.returned
        n == Len(r.rows)
        keep == SelectSeq([i \in 1..n |-> i], LAMBDA i : r.rows[i] # r.rows[n])
    IN  IF out.raised # "none" THEN out
        ELSE IF n = 0 THEN Outcome("KeyError", NoResult)
        ELSE Outcome("none",
                 Returned(r.kind, [i \in 1..Len(keep) |-> r.rows[keep[i]]],
                          r.devices,
                          [i \in 1..Len(keep) |-> r.cells[keep[i]]]))

\* get_timeseries_frame of the class of the instance.
GetTimeseries(frame, allow_duplicate_names, long) ==
    IF cls = "TwoWireAMRParser"
    THEN DropLastValid(TimeseriesFrame(frame, allow_duplicate_names, long))
    ELSE TimeseriesFrame(frame, allow_duplicate_names, long)

Operations == {"get_dataframe", "get_metadata_frame", "get_timeseries_frame"}

\* What the operation does once get_dataframe has returned `frame`.
Derive(name, frame, allow_duplicate_names, long) ==
    CASE name = "get_dataframe" -> Dataframe(frame)
      [] name = "get_metadata_frame" ->
           MetadataFrame(frame, allow_duplicate_names, long)
      [] OTHER -> GetTimeseries(frame, allow_duplicate_names, long)

\* A call of a frame operation: get_dataframe finds self.df None and runs
\* _parse_dataframe, and the operation derives its frame from the result.
Call(name, allow_duplicate_names) ==
    /\ status = "ready"
    /\ calls < MaxCalls
    /\ calls' = calls + 1
    /\ lastOp' = [name |-> name, allow_duplicate_names |-> allow_duplicate_names]
    /\ IF DataframeCached
       THEN UNCHANGED <<decodes, is_long_format, used_layout, err, result,
                        position>>
       ELSE LET d == ParseDataframe IN
            /\ decodes' = decodes + 1
            /\ position' = Exit(Len(file))
            /\ is_long_format' = d.long
            /\ IF d.raised # "none"
               THEN /\ err' = d.raised
                    /\ result' = NoResult
                    /\ UNCHANGED used_layout
               ELSE LET out == Derive(name, PandasRead(d.layout),
                                      allow_duplicate_names, d.long)
                    IN  /\ used_layout' = d.layout
                        /\ err' = out.raised
                        /\ result' = out.returned
    /\ UNCHANGED <<file, body, remove, cls, status, raw, dict, body_start_line,
                   body_end_line, df, cache>>
    /\ UNCHANGED <<resVars, rowVars>>

GetDataframe == Call("get_dataframe", TRUE)

GetMetadataFrame ==
    \E allow_duplicate_names \in BOOLEAN :
        Call("get_metadata_frame", allow_duplicate_names)

GetTimeseriesFrame ==
    \E allow_duplicate_names \in BOOLEAN :
        Call("get_timeseries_frame", allow_duplicate_names)

-----------------------------------------------------------------------------
(* MIG bodies and MigParser._parse_dataframe.                              *)

TimeZoneKey  == <<"Time zone">>
TimeZoneLine == << <<"[", "Time zone", "]">>, <<"+0100">> >>

\* A body line of a MIG 91 file of the model: its fields are AccessEAN,
\* EnergyType, Unit, Serial, the day Start falls on, Interval, and a seed
\* that spreads NaN over the readings of the line.
MigLine(ean, unit, serial, day, interval, seed) ==
    << <<ean>>, <<"E">>, <<unit>>, <<serial>>, <<day>>, interval, <<seed>> >>

MigLines ==
    {MigLine("2", "KWH", "1", "0", <<"15">>, "0"),
     MigLine("1", "KWH", "2", "0", <<"15">>, "0"),
     MigLine("2", "M3", "1", "0", EmptyField, "0"),
     MigLine("2", "KWH", "1", "1", <<"15">>, "0"),
     MigLine("2", "KWH", "1", "0", <<"15">>, "1")}

\* The number a field of digits is read as.
Numeral == ("0" :> 0) @@ ("1" :> 1) @@ ("2" :> 2) @@ ("15" :> 15)

\* The place of a category among the categories of its column.
CategoryRank == ("E" :> 1) @@ ("KWH" :> 1) @@ ("M3" :> 2)

MigClasses == {parsers[c] : c \in DOMAIN parsers}

\* The classes that have Mig3Export91Parser.get_timeseries_frame.
Mig91Classes ==
    {"Mig3Export91Parser", "Mig3Export92Parser", "Mig3Export93Parser"}

\* What pd.read_csv does on a MIG body, and the hour from Start to End of
\* its rows.
MigBodies ==
    [layout : {"mig"}, width : {RowWidth}, probe1 : {"ok", "ValueError"},
     probe2 : {"ok"}, span : {60}]

\* The lines read_csv keeps of self.strio, which holds the lines of
\* self.raw.
StrioLines ==
    LET skiprows   == body_start_line
        skipfooter == Len(raw) - body_end_line - 1
    IN  SubSeq(raw, skiprows + 1, Len(raw) - skipfooter)

\* The row a MIG 91 body line decodes to.
DecodeMigLine(line) ==
    [AccessEAN |-> Numeral[line[1][1]],
     EnergyType |-> line[2][1],
     Unit |-> line[3][1],
     Serial |-> Numeral[line[4][1]],
     Start |-> Numeral[line[5][1]] * MinutesPerDay,
     Span |-> body.span,
     Interval |-> IF line[6] = EmptyField THEN <<>>
                  ELSE <<Numeral[line[6][1]]>>,
     vseed |-> Numeral[line[7][1]],
     qseed |-> 0]

\* Mutant of DropDuplicates: every row is kept.
DropDuplicates_Nothing(rows) == rows

\* df.drop_duplicates(inplace=True): a row that equals an earlier row goes.
DropDuplicates(rows) ==
    LET keep == SelectSeq([i \in 1..Len(rows) |-> i],
                    LAMBDA i : \A j \in 1..(i - 1) : rows[j] # rows[i])
    IN  [i \in 1..Len(keep) |-> rows[keep[i]]]

\* _parse_dataframe of the MIG classes: the exception it raises, the lines
\* read_csv keeps and the lines of the rows of the frame it returns.
\* Mig3Export94Parser reads self.file and drops no duplicates.
MigParseDataframe ==
    LET lines == IF cls = "Mig3Export94Parser" THEN BodyLines ELSE StrioLines
        e == IF Len(lines) = 0 /\ cls # "Mig3Export94Parser"
             THEN "EmptyDataError"
             ELSE IF body.probe1 # "ok" THEN body.probe1
             ELSE IF TimeZoneKey \notin DOMAIN dict THEN "TypeError"
             ELSE "none"
    IN  [raised |-> e,
         lines |-> lines,
         rows |-> IF e # "none" THEN <<>>
                  ELSE IF cls = "Mig3Export94Parser" THEN lines
                  ELSE DropDuplicates(lines)]

-----------------------------------------------------------------------------
(* Mig3Export91Parser.get_timeseries_frame.                                *)

\* The key the rows are grouped by.
DeviceKey(r) == <<r.AccessEAN, r.EnergyType, r.Unit, r.Serial>>

\* groupby sorts the groups by their keys, column by column.
KeyRank(k) == <<k[1], CategoryRank[k[2]], CategoryRank[k[3]], k[4]>>

RECURSIVE TupleLess(_, _)
TupleLess(a, b) ==
    IF Len(a) = 0 \/ Len(b) = 0 THEN FALSE
    ELSE IF a[1] # b[1] THEN a[1] < b[1]
    ELSE TupleLess(Tail(a), Tail(b))

RECURSIVE SortKeys(_)
SortKeys(S) ==
    IF S = {} THEN <<>>
    ELSE LET m == CHOOSE x \in S :
                      \A y \in S \ {x} : TupleLess(KeyRank(x), KeyRank(y))
         IN  <<m>> \o SortKeys(S \ {m})

\* Mutant of GroupKeys: the keys in the order the rows hold them.
GroupKeys_AsEncountered(rows) ==
    LET first == SelectSeq([i \in 1..Len(rows) |-> i],
                     LAMBDA i : \A j \in 1..(i - 1) :
                         DeviceKey(rows[j]) # DeviceKey(rows[i]))
    IN  [i \in 1..Len(first) |-> DeviceKey(rows[first[i]])]

\* The keys of frame.groupby([...], dropna=False, observed=True), in the
\* order the groups are iterated in.
GroupKeys(rows) == SortKeys({DeviceKey(rows[i]) : i \in 1..Len(rows)})

RECURSIVE Flatten(_)
Flatten(seqs) ==
    IF Len(seqs) = 0 THEN <<>> ELSE seqs[1] \o Flatten(Tail(seqs))

RECURSIVE SortInts(_)
SortInts(S) ==
    IF S = {} THEN <<>>
    ELSE LET m == CHOOSE x \in S : \A y \in S : x <= y
         IN  <<m>> \o SortInts(S \ {m})

Range(seq) == {seq[i] : i \in 1..Len(seq)}

\* The rows of one group, parsed, in the order of the rows.
ParsedRows(rows, key, shift) ==
    LET members == SelectSeq(rows, LAMBDA r : DeviceKey(r) = key)
    IN  [i \in 1..Len(members) |-> ParseRowToTimeseries(members[i], shift)]

\* pd.concat(parsed_rows) of the parsed rows that are kept.
ConcatRows(key, kept) ==
    [key |-> key,
     parts |-> Len(kept),
     index |-> Flatten([i \in 1..Len(kept) |-> kept[i].index]),
     values |-> Flatten([i \in 1..Len(kept) |-> kept[i].values]),
     quality |-> Flatten([i \in 1..Len(kept) |-> kept[i].quality])]

\* column = pd.concat(parsed_rows) over the rows that are not empty.
StackedColumn(rows, key, shift) ==
    ConcatRows(key, SelectSeq(ParsedRows(rows, key, shift),
                              LAMBDA t : ~t.empty))

\* pd.concat(columns, axis=1): the index of the table.  The columns are
\* aligned on the union of their indexes, which needs indexes without
\* repeated timestamps unless all the indexes are the same.
TableIndex(columns) ==
    LET same == \A i \in 1..Len(columns) : columns[i].index = columns[1].index
        repeated == \E i \in 1..Len(columns) :
                        Cardinality(Range(columns[i].index))
                            # Len(columns[i].index)
    IN  IF Len(columns) = 0 THEN NoIndex("ValueError")
        ELSE IF same THEN Index(columns[1].index)
        ELSE IF repeated THEN NoIndex("InvalidIndexError")
        ELSE Index(SortInts(UNION {Range(columns[i].index) :
                                      i \in 1..Len(columns)}))

\* The table of the columns on the index pd.concat gave them.
TableOn(columns, index) ==
    IF index.raised # "none" THEN Outcome(index.raised, NoResult)
    ELSE Outcome("none",
             Returned("timeseries",
                 [i \in 1..Len(index.stamps) |-> Time(index.stamps[i])],
                 [g \in 1..Len(columns) |-> columns[g].key],
                 columns))

\* pd.concat(columns, axis=1)
ConcatColumns(columns) == TableOn(columns, TableIndex(columns))

\* The first exception the parsed rows raise, or the table of the columns.
RaiseOrConcat(raising, stacked) ==
    IF Len(raising) > 0 THEN Outcome(raising[1].raised, NoResult)
    ELSE ConcatColumns(SelectSeq(stacked, LAMBDA c : c.parts > 0))

\* The parsed rows of the groups, in the order get_timeseries_frame
\* parses them, and the stacked columns of the groups.
GroupedFrame(rows, keys, shift) ==
    RaiseOrConcat(
        SelectSeq(Flatten([g \in 1..Len(keys) |->
                              ParsedRows(rows, keys[g], shift)]),
                  LAMBDA t : t.raised # "none"),
        [g \in 1..Len(keys) |-> StackedColumn(rows, keys[g], shift)])

\* get_timeseries_frame(index_shift) on the rows get_dataframe returned.
MigTimeseriesFrame(rows, shift) == GroupedFrame(rows, GroupKeys(rows), shift)

\* The entry of the lru_cache for these arguments, if there is one.
Cached(shift) == {c \in cache : c.index_shift = shift}

MigOp(name, shift) == [name |-> name, allow_duplicate_names |-> TRUE,
                       index_shift |-> shift]

\* get_dataframe of a MIG class, and what the operation makes of it.
MigDerive(name, shift) ==
    LET d == MigParseDataframe IN
    IF d.raised # "none" THEN Outcome(d.raised, NoResult)
    ELSE IF name = "get_dataframe"
    THEN Outcome("none", Returned("dataframe", d.rows, <<>>, <<>>))
    ELSE MigTimeseriesFrame(
             [i \in 1..Len(d.rows) |-> DecodeMigLine(d.rows[i])], shift)

\* Mutant of MigGetMetadataFrame: the body is decoded before the raise.
MigGetMetadataFrame_Decodes ==
    /\ status = "ready"
    /\ cls \in MigClasses
    /\ calls < MaxCalls
    /\ calls' = calls + 1
    /\ lastOp' = MigOp("get_metadata_frame", "right")
    /\ err' = "NotImplementedError"
    /\ result' = NoResult
    /\ decodes' = decodes + 1
    /\ UNCHANGED <<file, body, remove, cls, status, raw, dict, body_start_line,
                   body_end_line, is_long_format, df, used_layout, cache,
                   position>>
    /\ UNCHANGED <<resVars, rowVars>>

\* get_metadata_frame of every MIG class raises NotImplementedError.
MigGetMetadataFrame ==
    /\ status = "ready"
    /\ cls \in MigClasses
    /\ calls < MaxCalls
    /\ calls' = calls + 1
    /\ lastOp' = MigOp("get_metadata_frame", "right")
    /\ err' = "NotImplementedError"
    /\ result' = NoResult
    /\ UNCHANGED <<file, body, remove, cls, status, raw, dict, body_start_line,
                   body_end_line, is_long_format, df, used_layout, cache,
                   decodes, position>>
    /\ UNCHANGED <<resVars, rowVars>>

\* Where a decode leaves the input: Mig3Export94Parser reads it, the
\* other classes read self.strio.
MigReadPosition ==
    IF cls = "Mig3Export94Parser" THEN Exit(Len(file)) ELSE position

\* get_dataframe of a MIG class.
MigGetDataframe ==
    /\ status = "ready"
    /\ cls \in MigClasses
    /\ calls < MaxCalls
    /\ calls' = calls + 1
    /\ lastOp' = MigOp("get_dataframe", "right")
    /\ IF DataframeCached
       THEN UNCHANGED <<decodes, err, result, position>>
       ELSE LET out == MigDerive("get_dataframe", "right") IN
            /\ decodes' = decodes + 1
            /\ position' = MigReadPosition
            /\ err' = out.raised
            /\ result' = out.returned
    /\ UNCHANGED <<file, body, remove, cls, status, raw, dict, body_start_line,
                   body_end_line, is_long_format, df, used_layout, cache>>
    /\ UNCHANGED <<resVars, rowVars>>

\* get_timeseries_frame of a MIG class: Mig3Export91Parser's, behind its
\* lru_cache, for 91, 92 and 93, and NotImplementedError for the others.
MigGetTimeseriesFrame ==
    /\ status = "ready"
    /\ cls \in MigClasses
    /\ calls < MaxCalls
    /\ calls' = calls + 1
    /\ \E shift \in {"right", "left"} :
        /\ lastOp' = MigOp("get_timeseries_frame", shift)
        /\ IF cls \notin Mig91Classes
           THEN /\ err' = "NotImplementedError"
                /\ result' = NoResult
                /\ UNCHANGED <<decodes, cache, position>>
           ELSE IF Cached(shift) # {}
           THEN /\ err' = "none"
                /\ result' = (CHOOSE c \in Cached(shift) : TRUE).returned
                /\ UNCHANGED <<decodes, cache, position>>
           ELSE LET out == MigDerive("get_timeseries_frame", shift) IN
                /\ decodes' = decodes + 1
                /\ position' = MigReadPosition
                /\ err' = out.raised
                /\ result' = out.returned
                /\ cache' = IF out.raised # "none" THEN cache
                            ELSE cache \cup {[index_shift |-> shift,
                                              returned |-> out.returned]}
    /\ UNCHANGED <<file, body, remove, cls, status, raw, dict, body_start_line,
                   body_end_line, is_long_format, df, used_layout>>
    /\ UNCHANGED <<resVars, rowVars>>

-----------------------------------------------------------------------------
(* Values the variables of one specification keep in the others.           *)

NoResolve ==
    /\ filepath = None
    /\ resolved = Unresolved

NoRow ==
    /\ row = None
    /\ index_shift = "right"
    /\ ts = Unparsed

NoFile ==
    /\ file = <<>>
    /\ body = NoBody
    /\ remove = FALSE
    /\ cls = None
    /\ status = "none"
    /\ err = "none"
    /\ NoInstance
    /\ decodes = 0
    /\ calls = 0
    /\ used_layout = "none"
    /\ position = 0
    /\ cache = {}
    /\ lastOp = NoOp
    /\ result = NoResult

-----------------------------------------------------------------------------
(* The construction specification: any file of up to MaxLines lines.       *)

InitParse ==
    /\ file \in Files
    /\ body = NoBody
    /\ remove \in BOOLEAN
    /\ cls = "TwoWireMMRParser"
    /\ status = "new"
    /\ err = "none"
    /\ NoInstance
    /\ decodes = 0
    /\ calls = 0
    /\ used_layout = "none"
    /\ position = Len(file)
    /\ cache = {}
    /\ lastOp = NoOp
    /\ result = NoResult
    /\ NoResolve
    /\ NoRow

NextParse == Construct

SpecParse == InitParse /\ [][NextParse]_vars

-----------------------------------------------------------------------------
(* The frame specification: a two-wire parser on a file with an optional   *)
(* Format line, both body markers and up to MaxRows data lines, and any    *)
(* frame operations on the instance.                                       *)

FormatLines == {<<>>, <<FormatMMRLine>>, <<FormatAMRLine>>}

DataLines == {DataLine, DataLineGap, DataLineTwin}

TwoWireFiles ==
    {header \o <<BodyStartLine>> \o rows \o <<BodyEndLine>> :
        header \in FormatLines,
        rows \in UNION {[1..n -> DataLines] : n \in 0..MaxRows}}

Init ==
    /\ file \in TwoWireFiles
    /\ body \in {b \in Bodies : b.probe1 \notin ValueErrors => b.probe2 = "ok"}
    /\ remove = FALSE
    /\ cls \in Classes
    /\ status = "new"
    /\ err = "none"
    /\ NoInstance
    /\ used_layout = "none"
    /\ position = Len(file)
    /\ cache = {}
    /\ decodes = 0
    /\ calls = 0
    /\ lastOp = NoOp
    /\ result = NoResult
    /\ NoResolve
    /\ NoRow

Next ==
    \/ Construct
    \/ GetDataframe
    \/ GetMetadataFrame
    \/ GetTimeseriesFrame

Spec == Init /\ [][Next]_vars

-----------------------------------------------------------------------------
(* The MIG specification: a MIG parser on a file with an optional Time     *)
(* zone line, optionally behind a CONTRACT-INFO line, both body markers    *)
(* and up to MaxMigRows body lines, and any frame operations on it.        *)

MigHeaders == {<<>>, <<TimeZoneLine>>, <<ContractLine, TimeZoneLine>>}

MigFiles ==
    {header \o <<BodyStartLine>> \o rows \o <<BodyEndLine>> :
        header \in MigHeaders,
        rows \in UNION {[1..n -> MigLines] : n \in 1..MaxMigRows}}

InitMig ==
    /\ file \in MigFiles
    /\ body \in MigBodies
    /\ remove \in {rm \in BOOLEAN : rm => IsContractInfo(file[1])}
    /\ cls \in MigClasses
    /\ status = "new"
    /\ err = "none"
    /\ NoInstance
    /\ used_layout = "none"
    /\ position = Len(file)
    /\ cache = {}
    /\ decodes = 0
    /\ calls = 0
    /\ lastOp = NoOp
    /\ result = NoResult
    /\ NoResolve
    /\ NoRow

NextMig ==
    \/ Construct
    \/ MigGetDataframe
    \/ MigGetMetadataFrame
    \/ MigGetTimeseriesFrame

SpecMig == InitMig /\ [][NextMig]_vars

-----------------------------------------------------------------------------
(* The resolution specification: get_mig_parser_cls on any file path.      *)

InitResolve ==
    /\ filepath \in FilePaths
    /\ resolved = Unresolved
    /\ NoFile
    /\ NoRow

NextResolve == Resolve

SpecResolve == InitResolve /\ [][NextResolve]_vars

-----------------------------------------------------------------------------
(* The row specification: _parse_row_to_timeseries on any row of the model.*)

InitRow ==
    /\ row \in Rows
    /\ index_shift \in IndexShifts
    /\ ts = Unparsed
    /\ NoFile
    /\ NoResolve

NextRow == ParseRow

SpecRow == InitRow /\ [][NextRow]_vars

-----------------------------------------------------------------------------
(* Reference notions the claims about construction are stated with.        *)

\* The line is a header line for `key`: its first field is bracketed and
\* names the key.
IsKeyLine(line, key) ==
    /\ Len(line) > 0
    /\ StartsWithBracket(line[1])
    /\ Strip(line[1]) = key

\* The Python indices of the header lines for `key`.
KeyLineIndices(lines, key) ==
    {i \in 0..(Len(lines) - 1) : IsKeyLine(lines[i + 1], key)}

SetMax(S) == CHOOSE m \in S : \A x \in S : x <= m

\* The bracket-keys that occur as first field of some line.
BracketKeys(lines) ==
    {Strip(lines[k][1]) : k \in {j \in 1..Len(lines) :
        Len(lines[j]) > 0 /\ StartsWithBracket(lines[j][1])}}

\* The bracket-keys of the lines that carry at least one non-empty value.
ValuedKeys(lines) ==
    {Strip(lines[k][1]) : k \in {j \in 1..Len(lines) :
        /\ Len(lines[j]) > 0
        /\ StartsWithBracket(lines[j][1])
        /\ \E m \in 2..Len(lines[j]) : lines[j][m] # EmptyField}}

Sentinels == {BodyStartKey, BodyEndKey}

-----------------------------------------------------------------------------
(* C2 (as stated): for every input file whose only [Body Start] line is at  *)
(* index s and whose only [Body End] line is at index e, s < e,            *)
(* construction sets body_start_line = s + 1 and body_end_line = e - 1.    *)
(* Violated: with remove_contract_info_lines the offsets count the         *)
(* retained lines, not the lines of the input.                             *)
C2_OffsetsOfInput ==
    status = "ready" =>
        \A s, e \in 0..(Len(file) - 1) :
            ( /\ KeyLineIndices(file, BodyStartKey) = {s}
              /\ KeyLineIndices(file, BodyEndKey) = {e}
              /\ s < e )
            => /\ body_start_line = s + 1
               /\ body_end_line = e - 1

(* C2 (amended): with s and e the indices, in the retained line sequence   *)
(* raw, of the (last) [Body Start] and [Body End] lines, construction sets *)
(* body_start_line = s + 1 and body_end_line = e - 1, and when s < e the   *)
(* slice raw[body_start_line : body_end_line + 1] is exactly the lines     *)
(* strictly between the two sentinel lines.                                *)
C2_OffsetsOfRaw ==
    status = "ready" =>
        LET s == SetMax(KeyLineIndices(raw, BodyStartKey))
            e == SetMax(KeyLineIndices(raw, BodyEndKey))
        IN  /\ body_start_line = s + 1
            /\ body_end_line = e - 1
            /\ s < e => PySlice(raw, Bound(body_start_line), Bound(body_end_line + 1))
                            = SubSeq(raw, s + 2, e)

\* C2 witness: a constructed instance whose input lost a CONTRACT-INFO line
\* and whose body, between the sentinels, is not empty.
C2_Witness ==
    /\ status = "ready"
    /\ remove /\ Len(raw) < Len(file)
    /\ body_start_line <= body_end_line
    /\ KeyLineIndices(raw, BodyStartKey) = {body_start_line - 1}

-----------------------------------------------------------------------------
(* C3 (as stated): the set `properties` returns equals the bracket-keys    *)
(* that occur as first field of some line, minus Body Start and Body End.  *)
(* Violated: the two sentinels are keys of self.dict.                      *)
C3_KeysMinusSentinels ==
    status = "ready" => properties = BracketKeys(raw) \ Sentinels

(* C3 (amended): the set `properties` returns holds both sentinels         *)
(* Body Start and Body End, and besides them exactly the bracket-keys of   *)
(* the lines that carry at least one non-empty value field.                *)
C3_KeysWithSentinels ==
    status = "ready" =>
        /\ Sentinels \subseteq properties
        /\ properties \ Sentinels = ValuedKeys(raw) \ Sentinels

\* C3 witness: a constructed instance with a valued key (Format) and a key
\* without any value (Subject) in its header.
C3_Witness ==
    /\ status = "ready"
    /\ FormatKey \in properties
    /\ SubjectKey \in BracketKeys(raw)

-----------------------------------------------------------------------------
(* C4 (as stated): an input of zero lines raises the empty-input error;    *)
(* otherwise a missing Body Start or Body End raises the missing-markers   *)
(* error; both leave no instance; every other input constructs, with both  *)
(* body lines set.  Violated: an input that holds only CONTRACT-INFO lines *)
(* raises the empty-input error when those lines are removed.              *)
C4_FailFastOnInput ==
    status # "new" =>
        LET present == /\ KeyLineIndices(raw, BodyStartKey) # {}
                       /\ KeyLineIndices(raw, BodyEndKey) # {}
            scanned == RetainedLines(file, remove)
            marked  == /\ KeyLineIndices(scanned, BodyStartKey) # {}
                       /\ KeyLineIndices(scanned, BodyEndKey) # {}
        IN  IF Len(file) = 0
            THEN err = "EmptyFileException" /\ status = "failed" /\ NoInstance
            ELSE IF ~marked
            THEN err = "ParserError" /\ status = "failed" /\ NoInstance
            ELSE /\ err = "none" /\ status = "ready" /\ present
                 /\ body_start_line = dict[BodyStartKey].v[1]
                 /\ body_end_line = dict[BodyEndKey].v[1]

(* C4 (amended): when no line is retained (the input has zero lines, or    *)
(* remove_contract_info_lines dropped them all) construction raises the    *)
(* empty-input error; otherwise a missing Body Start or Body End raises    *)
(* the missing-markers error; both leave no instance; in every other case  *)
(* construction succeeds with body_start_line and body_end_line set.       *)
C4_FailFastOnRetained ==
    status # "new" =>
        LET scanned == RetainedLines(file, remove)
            marked  == /\ KeyLineIndices(scanned, BodyStartKey) # {}
                       /\ KeyLineIndices(scanned, BodyEndKey) # {}
        IN  IF Len(scanned) = 0
            THEN err = "EmptyFileException" /\ status = "failed" /\ NoInstance
            ELSE IF ~marked
            THEN err = "ParserError" /\ status = "failed" /\ NoInstance
            ELSE /\ err = "none" /\ status = "ready" /\ raw = scanned
                 /\ body_start_line = dict[BodyStartKey].v[1]
                 /\ body_end_line = dict[BodyEndKey].v[1]

\* C4 witness: a construction that failed for want of one body marker on
\* an input that has the other one.
C4_Witness ==
    /\ status = "failed"
    /\ err = "ParserError"
    /\ KeyLineIndices(file, BodyStartKey) # {}
    /\ KeyLineIndices(file, BodyEndKey) = {}

-----------------------------------------------------------------------------
(* C5: MIG variant resolution ends, for a file name that matches the       *)
(* naming pattern, in the one parser class of its variant code when the    *)
(* code is 91..96, and in the dedicated unsupported-variant error for any  *)
(* other two-digit code.  Violated: the lookup of an unknown code raises   *)
(* the dict's KeyError; the module has no error of its own for it.         *)
C5_UnsupportedVariantError ==
    (resolved.done /\ match_filename(filepath).matched) =>
        LET code == match_filename(filepath).export_no IN
        IF code[1] = 9 /\ code[2] \in 1..6
        THEN /\ resolved.raised = "none"
             /\ resolved.cls = parsers[code]
        ELSE /\ resolved.cls = None
             /\ resolved.raised = "UnsupportedVariant"

-----------------------------------------------------------------------------
(* Reference notions the claims about the per-row series are stated with.  *)

\* The row declares 15 minutes and spans 24 hours.
QuarterHourDay ==
    /\ row.Interval = <<15>>
    /\ row.Span = MinutesPerDay

\* The index is right-closed over (Start, End] in steps of L minutes.
RightClosedIndex(index, L) ==
    /\ Len(index) > 0
    /\ index[1] = row.Start + L
    /\ index[Len(index)] = RowEnd(row)
    /\ \A i \in 1..Len(index) : index[i] # row.Start
    /\ \A i \in 1..(Len(index) - 1) : index[i + 1] - index[i] = L

\* The cells of the row that position i (1-based) of the series reads.
ValueRead(i) ==
    RowCells(row)[StartSlice(row.Interval[1]) + (i - 1) * Step(row.Interval[1]) + 1]

QualityRead(i) ==
    RowCells(row)[StartSlice(row.Interval[1]) + QualityOffset
                  + (i - 1) * Step(row.Interval[1]) + 1]

-----------------------------------------------------------------------------
(* C8 (as stated): for a row with interval length 15 minutes and           *)
(* End = Start + 24 hours, the per-row timestamp index has exactly 96      *)
(* timestamps, is right-closed over (Start, End] and steps by 15 minutes.  *)
(* Violated: index_shift is passed on as `inclusive`; "both" gives 97      *)
(* timestamps, "neither" 95, "left" the left-closed [Start, End).          *)
C8_QuarterHourIndex ==
    (ts.done /\ QuarterHourDay) =>
        /\ ts.raised = "none"
        /\ Len(ts.index) = 96
        /\ RightClosedIndex(ts.index, 15)

(* C8 (amended): with index_shift = "right" (the default), a row with      *)
(* interval length 15 minutes and End = Start + 24 hours has a timestamp   *)
(* index of exactly 96 timestamps, right-closed over (Start, End], with    *)
(* consecutive timestamps exactly 15 minutes apart.                        *)
C8_QuarterHourIndexRight ==
    (ts.done /\ QuarterHourDay /\ index_shift = "right") =>
        /\ ts.raised = "none"
        /\ Len(ts.index) = 96
        /\ RightClosedIndex(ts.index, 15)

\* C8 witness: such a row was parsed with the default index_shift and its
\* series ends on End.
C8_Witness ==
    /\ ts.done /\ QuarterHourDay /\ index_shift = "right"
    /\ ~ts.empty
    /\ ts.index[Len(ts.index)] = row.Start + MinutesPerDay

-----------------------------------------------------------------------------
(* C9: in every per-row interval series the value and the quality series   *)
(* have the index's length, every position keeps the quality code the row  *)
(* holds for it, a position whose quality code is "?" has the value NaN,   *)
(* and every other position has the value the row holds for it.            *)
C9_QualityMask ==
    (ts.done /\ ts.raised = "none" /\ row.Interval # <<>>) =>
        /\ Len(ts.values) = Len(ts.index)
        /\ Len(ts.quality) = Len(ts.index)
        /\ \A i \in 1..Len(ts.index) :
            /\ ts.quality[i] = QualityRead(i)
            /\ ts.quality[i] = InvalidCode => ts.values[i] = NaN
            /\ ts.quality[i] # InvalidCode => ts.values[i] = ValueRead(i)

\* C9 witness: a series in which some position has the code "?" over a
\* number in the row, and another position has a code other than "?".
C9_Witness ==
    /\ ts.done /\ ts.raised = "none" /\ ~ts.empty
    /\ \E i, j \in 1..Len(ts.index) :
        /\ ts.quality[i] = InvalidCode /\ ValueRead(i).k = "num"
        /\ ts.quality[j] = Str("A") /\ ts.values[j].k = "num"

-----------------------------------------------------------------------------
(* Reference notions the claims about the frame operations are stated with.*)

\* A frame operation was called on a TwoWireMMRParser whose short read
\* raises ValueError and whose long read returns a frame.
MisalignedMMR ==
    /\ cls = "TwoWireMMRParser"
    /\ status = "ready"
    /\ lastOp.name # "none"
    /\ ReadOutcome(1) = "ValueError"
    /\ ReadOutcome(2) = "ok"

\* The label is one of the rows of the returned frame.
HasRow(r, label) == \E i \in 1..Len(r.rows) : r.rows[i] = label

\* What TwoWireParser.get_timeseries_frame, the base builder, returns for
\* the arguments of the last call.
BaseTimeseries ==
    TimeseriesFrame(PandasRead(used_layout), lastOp.allow_duplicate_names,
                    is_long_format).returned

\* A call of get_timeseries_frame on a TwoWireAMRParser returned a frame.
AMRTimeseriesReturned ==
    /\ cls = "TwoWireAMRParser"
    /\ lastOp.name = "get_timeseries_frame"
    /\ used_layout # "none"
    /\ err = "none"

-----------------------------------------------------------------------------
(* C1: every frame operation computes its frame at most once on an         *)
(* instance; the second and every later call returns the cached result     *)
(* without reading the file and without decoding the body again.  So the   *)
(* body is decoded at most once on an instance.                            *)
(* Violated: self.df is never assigned, get_dataframe finds it None on     *)
(* every call and runs _parse_dataframe again.                             *)
C1_DecodedAtMostOnce == decodes <= 1

-----------------------------------------------------------------------------
(* C6: on a TwoWireMMRParser whose short read hits a date-conversion       *)
(* error (ValueError) on a file its long read decodes, every frame         *)
(* operation decodes with the long layout, leaves is_long_format True, the *)
(* metadata frame has the Ean row, and a repeated operation has the        *)
(* outcome it had before.                                                  *)
C6_LongFallbackState ==
    MisalignedMMR =>
        /\ used_layout = "long"
        /\ is_long_format
        /\ lastOp.name = "get_metadata_frame" =>
              /\ err = "none"
              /\ HasRow(result, Str("Ean"))

C6_SameOutcome ==
    (MisalignedMMR /\ lastOp' = lastOp) =>
        /\ result' = result
        /\ err' = err
        /\ is_long_format' = is_long_format
        /\ used_layout' = used_layout

-----------------------------------------------------------------------------
(* C7: on a TwoWireMMRParser, once a decode has returned a frame, the      *)
(* layout it used is the layout of every later decode, and val_range and   *)
(* meta_range are the ranges of that layout: (6, None) and (None, 6) for   *)
(* the short layout, (7, -2) and (None, 7) for the long one.               *)
C7_RangesOfLayout ==
    (cls = "TwoWireMMRParser" /\ used_layout # "none") =>
        /\ used_layout \in {"short", "long"}
        /\ is_long_format = (used_layout = "long")
        /\ ValRange(cls, is_long_format) =
              IF used_layout = "long" THEN <<Bound(7), Bound(-2)>>
              ELSE <<Bound(6), NoBound>>
        /\ MetaRange(cls, is_long_format) =
              IF used_layout = "long" THEN <<NoBound, Bound(7)>>
              ELSE <<NoBound, Bound(6)>>

C7_LayoutKept ==
    (cls = "TwoWireMMRParser" /\ used_layout # "none") =>
        /\ used_layout' = used_layout
        /\ is_long_format' = is_long_format

C7_LayoutStable == [](C7_RangesOfLayout) /\ [][C7_LayoutKept]_vars

\* C7 witness: two operations on an instance that adopted the long layout.
C7_Witness ==
    /\ cls = "TwoWireMMRParser"
    /\ used_layout = "long"
    /\ calls = 2
    /\ ValRange(cls, is_long_format) = <<Bound(7), Bound(-2)>>

-----------------------------------------------------------------------------
(* C10: when get_timeseries_frame of the TwoWireAMRParser returns, it      *)
(* returns the table of the base builder without its last timestamp row:   *)
(* one row fewer, the other rows unchanged and in the same order.          *)
C10_FinalRowDropped ==
    AMRTimeseriesReturned =>
        LET base == BaseTimeseries
            n    == Len(base.rows)
        IN  /\ n >= 1
            /\ Len(result.rows) = n - 1
            /\ result.rows = SubSeq(base.rows, 1, n - 1)
            /\ result.cells = SubSeq(base.cells, 1, n - 1)
            /\ result.devices = base.devices
            /\ ~HasRow(result, base.rows[n])

\* C10 witness: the AMR parser returned a series of several rows, one
\* fewer than the base builder's.
C10_Witness ==
    /\ AMRTimeseriesReturned
    /\ Len(result.rows) >= 2
    /\ Len(BaseTimeseries.rows) = Len(result.rows) + 1

-----------------------------------------------------------------------------
(* Reference notions the claims about the header map are stated with.      *)

\* The non-empty fields that follow the key of a header line.
ValueFields(line) ==
    SelectSeq(SubSeq(line, 2, Len(line)), LAMBDA f : f # EmptyField)

\* What the header map holds for such fields: a scalar string for one
\* field, an ordered list otherwise.
ScalarOrList(fields) ==
    IF Len(fields) = 1 THEN StrVal(fields[1]) ELSE ListVal(fields)

\* The Python indices of the header lines for `key` that carry a value.
ValuedLineIndices(lines, key) ==
    {i \in KeyLineIndices(lines, key) : Len(ValueFields(lines[i + 1])) > 0}

\* The bracket-keys, other than the sentinels, of more than one line.
RepeatedKeys(lines) ==
    {k \in BracketKeys(lines) \ Sentinels :
        Cardinality(KeyLineIndices(lines, k)) > 1}

-----------------------------------------------------------------------------
(* C13: on every input on which construction succeeds the body range is a  *)
(* contiguous sub-range of the raw lines: 0 <= body_start_line,            *)
(* body_end_line < len(raw) and body_start_line <= body_end_line + 1,      *)
(* whatever the positions and the order of the two marker lines.           *)
(* Violated: nothing compares the two offsets; a [Body End] line ahead of  *)
(* the [Body Start] line gives body_start_line > body_end_line + 1.        *)
C13_BodyRangeContiguous ==
    status = "ready" =>
        /\ 0 <= body_start_line
        /\ body_end_line < Len(raw)
        /\ body_start_line <= body_end_line + 1

-----------------------------------------------------------------------------
(* C17 (as stated): for every bracket-key k, other than the sentinels, of  *)
(* more than one line, the header map holds for k the value of the last    *)
(* line whose key is k, whatever the fields of that line: a scalar string  *)
(* for one non-empty field, an ordered list for two or more.               *)
(* Violated: a line without a non-empty field is skipped, and the value of *)
(* an earlier line for k stays.                                            *)
C17_LastLineWins ==
    status = "ready" =>
        \A k \in RepeatedKeys(raw) :
            LET last == SetMax(KeyLineIndices(raw, k)) IN
            /\ k \in DOMAIN dict
            /\ dict[k] = ScalarOrList(ValueFields(raw[last + 1]))

(* C17 (amended): for every bracket-key k, other than the sentinels, of    *)
(* more than one line, the header map holds for k the value of the last    *)
(* line for k that has a non-empty field, a scalar string for one          *)
(* non-empty field and an ordered list for two or more; k is not in the    *)
(* map when no line for k has a non-empty field.                           *)
C17_LastValuedLineWins ==
    status = "ready" =>
        \A k \in RepeatedKeys(raw) :
            IF ValuedLineIndices(raw, k) = {}
            THEN k \notin DOMAIN dict
            ELSE LET last == SetMax(ValuedLineIndices(raw, k)) IN
                 /\ k \in DOMAIN dict
                 /\ dict[k] = ScalarOrList(ValueFields(raw[last + 1]))

\* C17 witness: a constructed instance whose header has two Format lines
\* with different values, the list of the second being in the map.
C17_Witness ==
    /\ status = "ready"
    /\ FormatKey \in RepeatedKeys(raw)
    /\ Cardinality(ValuedLineIndices(raw, FormatKey)) > 1
    /\ dict[FormatKey].t = "list"
    /\ \E i \in ValuedLineIndices(raw, FormatKey) :
          ScalarOrList(ValueFields(raw[i + 1])) # dict[FormatKey]

-----------------------------------------------------------------------------
(* C14: for every interval length L of 5, 10, 15, 30 and 60 minutes the    *)
(* stride S = 5 - 60/L is a positive integer, the start offset is          *)
(* 9 + S - 1, and every S-th column from the start offset gives as many    *)
(* value columns as the index has timestamps, all of them before the       *)
(* quality block 100 columns further right; likewise the quality slice,    *)
(* before the named columns that follow the quality block.                 *)
(* Violated: S is -7 for L = 5 and -1 for L = 10, and for L = 30 (S = 3)   *)
(* the 48 readings of a day run over the end of their blocks.              *)
C14_StrideInsideBlock ==
    (ts.done /\ row.Interval # <<>>) =>
        LET L    == row.Interval[1]
            S    == Step(L)
            from == StartSlice(L)
            n    == Len(DateRange(row.Start, RowEnd(row), L, index_shift))
        IN  /\ 60 % L = 0
            /\ S = 5 - 60 \div L
            /\ S > 0
            /\ from = 9 + S - 1
            /\ ts.raised = "none"
            /\ Len(ts.values) = n
            /\ Len(ts.quality) = n
            /\ \A i \in 1..n :
                /\ from + (i - 1) * S < ValueBlockStart + QualityOffset
                /\ from + QualityOffset + (i - 1) * S < IntervalColumn

-----------------------------------------------------------------------------
(* Reference notions the claims about the MIG operations are stated with.  *)

\* The step is a call of the named operation.
CallOf(name) == calls' = calls + 1 /\ lastOp'.name = name

\* What the instance holds.
instance == <<raw, dict, body_start_line, body_end_line, is_long_format, df,
              used_layout, cache, status>>

\* get_timeseries_frame of a MIG 91 parser returned a table.
MigTableReturned ==
    /\ cls \in Mig91Classes
    /\ lastOp.name = "get_timeseries_frame"
    /\ err = "none"
    /\ result.kind = "timeseries"

\* The lines between the body markers, as rows.
BodyRows == [i \in 1..Len(StrioLines) |-> DecodeMigLine(StrioLines[i])]

\* The rows without those that equal an earlier row in every column.
DistinctRows(rows) ==
    LET first == {i \in 1..Len(rows) : \A j \in 1..(i - 1) : rows[j] # rows[i]}
        at    == SortInts(first)
    IN  [i \in 1..Len(at) |-> rows[at[i]]]

\* The series of the rows that have the key, one after the other.
SeriesOf(rows, key, shift) ==
    LET members == SelectSeq(rows, LAMBDA r : DeviceKey(r) = key)
        series  == [i \in 1..Len(members) |->
                       ParseRowToTimeseries(members[i], shift)]
    IN  [index |-> Flatten([i \in 1..Len(series) |-> series[i].index]),
         values |-> Flatten([i \in 1..Len(series) |-> series[i].values])]

\* The table holds, for every key of the rows, the series of all the rows
\* of that key, and nothing else.
TableHolds(rows) ==
    LET shift == lastOp.index_shift
        keys  == {DeviceKey(rows[i]) : i \in 1..Len(rows)}
    IN  /\ \A k \in keys :
            Len(SeriesOf(rows, k, shift).index) > 0 =>
                \E g \in 1..Len(result.cells) :
                    /\ result.cells[g].key = k
                    /\ result.cells[g].index = SeriesOf(rows, k, shift).index
                    /\ result.cells[g].values = SeriesOf(rows, k, shift).values
        /\ \A g \in 1..Len(result.cells) : result.cells[g].key \in keys

\* The keys of the rows in the order they are first met, without the keys
\* whose rows all have an empty series.
KeysAsEncountered(rows, shift) ==
    LET first == SelectSeq([i \in 1..Len(rows) |-> i],
                     LAMBDA i : \A j \in 1..(i - 1) :
                         DeviceKey(rows[j]) # DeviceKey(rows[i]))
        keys  == [i \in 1..Len(first) |-> DeviceKey(rows[first[i]])]
    IN  SelectSeq(keys, LAMBDA k : Len(SeriesOf(rows, k, shift).index) > 0)

-----------------------------------------------------------------------------
(* C11: on every MIG variant, 91 to 96, asking for the metadata frame ends *)
(* in NotImplementedError, never in another failure and never in a frame,  *)
(* and the call neither decodes the body nor changes the instance.         *)
C11_NotApplicableState ==
    (cls \in MigClasses /\ lastOp.name = "get_metadata_frame") =>
        /\ err = "NotImplementedError"
        /\ result = NoResult

C11_NothingTouched ==
    (cls \in MigClasses /\ CallOf("get_metadata_frame")) =>
        /\ decodes' = decodes
        /\ instance' = instance
        /\ file' = file

C11_MetadataNotApplicable ==
    [](C11_NotApplicableState) /\ [][C11_NothingTouched]_vars

\* C11 witness: the metadata frame was asked of a Mig3Export94Parser that
\* had decoded its body before.
C11_Witness ==
    /\ cls = "Mig3Export94Parser"
    /\ lastOp.name = "get_metadata_frame"
    /\ err = "NotImplementedError"
    /\ decodes = 1
    /\ calls = 2

-----------------------------------------------------------------------------
(* C15 (as stated): every row between the body markers, rows that equal    *)
(* another row in every column included, is in the stacked series of its   *)
(* DeviceKey: the table holds the series of all the body rows.             *)
(* Violated: _parse_dataframe drops the rows that equal an earlier row.    *)
C15_AllRowsRetained == MigTableReturned => TableHolds(BodyRows)

(* C15 (amended): the rows of one DeviceKey that carry the same timestamps *)
(* and differ in some column are all in the stacked series of the key;     *)
(* of the rows that are equal in every column one is.                      *)
C15_DistinctRowsRetained ==
    MigTableReturned => TableHolds(DistinctRows(BodyRows))

\* C15 witness: two rows of one key with the same timestamps and other
\* readings are both in the series of the key, which has every timestamp
\* twice.
C15_Witness ==
    /\ MigTableReturned
    /\ Len(BodyRows) = 2
    /\ BodyRows[1] # BodyRows[2]
    /\ DeviceKey(BodyRows[1]) = DeviceKey(BodyRows[2])
    /\ BodyRows[1].Start = BodyRows[2].Start
    /\ Len(result.cells) = 1
    /\ Len(result.cells[1].index) = 2 * Cardinality(Range(result.cells[1].index))
    /\ Len(result.cells[1].index) > 0

-----------------------------------------------------------------------------
(* C16 (as stated): the table has one column for each DeviceKey            *)
(* (AccessEAN, EnergyType, Unit, Serial) that has a row with a series that *)
(* is not empty, and the columns are in the order in which the keys are    *)
(* first met in the body rows.                                             *)
(* Violated: groupby sorts the groups by their keys.                       *)
C16_ColumnsAsEncountered ==
    MigTableReturned =>
        result.devices =
            KeysAsEncountered(DistinctRows(BodyRows), lastOp.index_shift)

(* C16 (amended): the table has one column for each DeviceKey that has a   *)
(* row with a series that is not empty, none for a key whose rows all have *)
(* an empty series, and the columns are in ascending order of the keys.    *)
C16_ColumnsSorted ==
    MigTableReturned =>
        /\ Range(result.devices) =
              Range(KeysAsEncountered(DistinctRows(BodyRows),
                                      lastOp.index_shift))
        /\ \A i, j \in 1..Len(result.devices) :
              i < j => TupleLess(KeyRank(result.devices[i]),
                                 KeyRank(result.devices[j]))

\* C16 witness: a table of two columns whose second column is the key of
\* the first body row.
C16_Witness ==
    /\ MigTableReturned
    /\ Len(result.devices) = 2
    /\ result.devices[2] = DeviceKey(BodyRows[1])

-----------------------------------------------------------------------------
(* Reference notions the claim about failed calls is stated with.          *)

\* The step is a call of a frame operation that raises.
FailedCall == calls' = calls + 1 /\ err' # "none"

\* The layout a new two-wire instance decodes the file with, or "none".
FirstLayout ==
    IF cls = "TwoWireAMRParser"
    THEN (IF ReadOutcome(1) = "ok" THEN "amr" ELSE "none")
    ELSE IF ReadOutcome(1) = "ok" THEN "short"
    ELSE IF ReadOutcome(1) = "ValueError" /\ ReadOutcome(2) = "ok" THEN "long"
    ELSE "none"

\* What the last call gives when it is the first call on the instance.
AsFirstCall ==
    IF FirstLayout = "none"
    THEN Outcome(IF ReadOutcome(1) = "ValueError" /\ cls = "TwoWireMMRParser"
                 THEN ReadOutcome(2) ELSE ReadOutcome(1),
                 NoResult)
    ELSE Derive(lastOp.name, PandasRead(FirstLayout),
                lastOp.allow_duplicate_names, FirstLayout = "long")

-----------------------------------------------------------------------------
(* C12 (as stated): a frame operation that raises leaves the header map,   *)
(* body_start_line, body_end_line and the layout flag as they were and a   *)
(* buffer-backed input rewound to offset 0, and every call has the outcome *)
(* it has as the first call on the instance.                               *)
(* Violated: a long decode sets is_long_format before the operation        *)
(* raises on the decoded frame.                                            *)
C12_FailureKeepsAll ==
    FailedCall =>
        /\ dict' = dict
        /\ raw' = raw
        /\ body_start_line' = body_start_line
        /\ body_end_line' = body_end_line
        /\ is_long_format' = is_long_format
        /\ position' = 0

C12_FailureKeepsHeader ==
    FailedCall =>
        /\ dict' = dict
        /\ raw' = raw
        /\ body_start_line' = body_start_line
        /\ body_end_line' = body_end_line
        /\ position' = 0
        /\ status' = status
        /\ FirstLayout = "none" => is_long_format' = is_long_format
        /\ FirstLayout = "long" => is_long_format'

C12_OutcomeAsFirstCall ==
    (status = "ready" /\ lastOp.name # "none") =>
        /\ err = AsFirstCall.raised
        /\ result = AsFirstCall.returned

-----------------------------------------------------------------------------
(* The shared timestamp index of the two-wire time-series builder.         *)

\* The reading rows of get_timeseries_frame: the value columns of the kept
\* devices, transposed, without the rows that hold a missing reading.
ReadingRows(frame, allow_duplicate_names, long) ==
    LET cols  == ColumnSlice(frame, ValRange(cls, long))
        kept  == KeptRows(frame.names, allow_duplicate_names)
        table == [i \in 1..Len(cols) |->
                     [j \in 1..Len(kept) |-> frame.cells[kept[j]][cols[i]]]]
    IN  SelectSeq(table, LAMBDA r : \A j \in 1..Len(r) : ~IsNull(r[j]))

\* The stamps are evenly spaced by `step` minutes.
StepsBy(stamps, step) ==
    \A i \in 1..(Len(stamps) - 1) : stamps[i + 1].n - stamps[i].n = step

\* The stamps are evenly spaced, whatever the step.
EvenlySpaced(stamps) ==
    \A i, j \in 1..(Len(stamps) - 1) :
        stamps[i + 1].n - stamps[i].n = stamps[j + 1].n - stamps[j].n

\* The last call was get_timeseries_frame on a body that decoded, with a
\* Format property the interval can be read from and with Start and End
\* that are dates.
TimeseriesBuilt ==
    /\ status = "ready"
    /\ cls \in Classes
    /\ lastOp.name = "get_timeseries_frame"
    /\ ParseDataframe.raised = "none"
    /\ Interval.raised = "none"
    /\ LET frame == PandasRead(ParseDataframe.layout) IN
       /\ frame.cells[1][ColumnOf(frame, "Start")].k = "time"
       /\ frame.cells[1][ColumnOf(frame, "End")].k = "time"

(* C18: in the two-wire time-series builder, without a declared interval   *)
(* and with n >= 1 reading rows the index has exactly n timestamps, evenly *)
(* spaced, the first Start and the last End; with a declared interval the  *)
(* index steps by that interval from Start to End; in both cases the index *)
(* is as long as the reading rows, so that assigning it succeeds.          *)
(* Violated: with one reading row date_range divides by periods - 1 = 0.   *)
C18_IndexOfReadings ==
    TimeseriesBuilt =>
        LET frame == PandasRead(ParseDataframe.layout)
            long  == is_long_format
            allow == lastOp.allow_duplicate_names
            n     == Len(ReadingRows(frame, allow, long))
            start == frame.cells[1][ColumnOf(frame, "Start")]
            end   == frame.cells[1][ColumnOf(frame, "End")]
            out   == TimeseriesFrame(frame, allow, long)
            index == out.returned.rows
        IN  /\ (cls = "TwoWireMMRParser") =>
                   (err = out.raised /\ result = out.returned)
            /\ (Interval.none /\ n >= 1) =>
                   /\ out.raised = "none"
                   /\ Len(index) = n
                   /\ index[1] = start
                   /\ index[n] = end
                   /\ EvenlySpaced(index)
            /\ (~Interval.none) =>
                   /\ out.raised = "none"
                   /\ Len(index) = n
                   /\ n >= 1 => index[1] = start
                   /\ StepsBy(index, FreqMinutes(Interval.text))

\* C18 without the cases in which date_range has nothing to divide: with
\* at least two reading rows and Start before End, a file that declares no
\* interval gets n evenly spaced timestamps from Start to End.
C18_IndexOfTwoOrMore ==
    TimeseriesBuilt =>
        LET frame == PandasRead(ParseDataframe.layout)
            allow == lastOp.allow_duplicate_names
            n     == Len(ReadingRows(frame, allow, is_long_format))
            start == frame.cells[1][ColumnOf(frame, "Start")]
            end   == frame.cells[1][ColumnOf(frame, "End")]
            out   == TimeseriesFrame(frame, allow, is_long_format)
            index == out.returned.rows
        IN  (Interval.none /\ n >= 2 /\ start.n < end.n) =>
                /\ out.raised = "none"
                /\ Len(index) = n
                /\ index[1] = start
                /\ index[n] = end
                /\ EvenlySpaced(index)

-----------------------------------------------------------------------------
(* The lines the body is decoded from.                                     *)

\* raw[body_start_line : body_end_line + 1]
RawBody == SubSeq(raw, body_start_line + 1, body_end_line + 1)

(* C19: for every parser class and both values of                          *)
(* remove_contract_info_lines, the lines the body is decoded from (with    *)
(* skiprows = body_start_line and skipfooter = len(raw) - body_end_line    *)
(* - 1) are raw[body_start_line : body_end_line + 1], the lines the        *)
(* offsets were computed on, also when CONTRACT-INFO lines were removed.   *)
(* Violated: Mig3Export94Parser reads self.file, which still holds the     *)
(* removed lines, with offsets that count the lines of self.raw.           *)
C19_BodyFromRaw ==
    (/\ status = "ready"
     /\ cls \in MigClasses
     /\ lastOp.name = "get_dataframe"
     /\ decodes >= 1) =>
        /\ MigParseDataframe.lines = RawBody
        /\ (cls = "Mig3Export94Parser" /\ err = "none") =>
               result.rows = RawBody

\* C19 for the classes that decode self.strio, the text rebuilt from
\* self.raw: their body is raw[body_start_line : body_end_line + 1].
C19_StrioBodyFromRaw ==
    (/\ status = "ready"
     /\ cls \in MigClasses \ {"Mig3Export94Parser"}
     /\ lastOp.name = "get_dataframe"
     /\ decodes >= 1) =>
        /\ MigParseDataframe.lines = RawBody
        /\ err = "none" => result.rows = DropDuplicates(RawBody)

====
